---- MODULE Spec2Model ----
(***************************************************************************)
(* A model of wxparams/wxparams.py: the functions that overwrite array     *)
(* elements under a mask (UV_to_SpdDir, Deg_to_Dir8, Deg_to_Dir16,          *)
(* RH_to_Td, SSI).  One behaviour is one call: Init is the moment of the    *)
(* call (the caller's arrays are on the heap, the arguments are bound),     *)
(* the actions are the function bodies.                                     *)
(*                                                                         *)
(* Numbers are fixed point:                                                 *)
(*   directions            1 unit = 0.05 degree   (360 degrees = 7200)      *)
(*   wind speed            1 unit = 0.01                                    *)
(*   SSI temperatures      1 unit = 2^-17 degree C (1 degree C = 131072),   *)
(*                         so that 120 halved twenty times stays exact      *)
(*   SSI Theta_e, diff     1 unit = 10^-6 K                                 *)
(*   RH_to_Td temperature  1 unit = 0.1 degree C, humidity 1 unit = 0.1 %   *)
(* numpy arrays are sequences held in a heap (object id -> sequence): a     *)
(* statement either allocates a new object or writes into an existing one.  *)
(***************************************************************************)
EXTENDS Integers, Sequences, FiniteSets, TLC

VARIABLES fn, kind, args, heap, caller, pc, ret, frame

vars == <<fn, kind, args, heap, caller, pc, ret, frame>>

\* ------------------------------------------------------------------ bounds
\* Longest caller array of the multi-element calls.
MaxLen == 2
\* Largest magnitude of a wind component.
UMax == 2

\* ------------------------------------------------------- heap and arrays
Abs(x) == IF x < 0 THEN -x ELSE x

Idx(a) == 1..Len(a)

NextId(h) == Cardinality(DOMAIN h) + 1

\* A new array object: every numpy expression that builds an array.
Alloc(h, arr) == [h |-> h @@ (NextId(h) :> arr), id |-> NextId(h)]

\* An aliasing "copy": the array itself under a second name.
DeepCopyAlias(h, id) == [h |-> h, id |-> id]

\* copy.deepcopy(val)
DeepCopy(h, id) == Alloc(h, h[id])

\* Only numpy.ndarray supports item assignment and .clip on every input:
\* a Python int or float (and a numpy scalar, for item assignment) does not.
IsArray(k) == k = "ndarray"

\* ------------------------------------------- Deg_to_Dir8 / Deg_to_Dir16
\* 720, 22.5, 360, 45, 11.25 and 22.5 degrees, in direction units.
CALM_SHIFT == 14400
HALF8 == 450
FULL == 7200
SECTOR8 == 900
HALF16 == 225
SECTOR16 == 450
SENTINEL == 999

Labels8 == <<"N", "NE", "E", "SE", "S", "SW", "W", "NW">>

Labels16 == <<"N", "NNE", "NE", "ENE", "E", "ESE", "SE", "SSE",
              "S", "SSW", "SW", "WSW", "W", "WNW", "NW", "NNW">>

\* dirname = [labels..., dir_zero]
Dirname(labels, dir_zero) == Append(labels, dir_zero)

\* deg[ deg==0 ] = 720
ShiftCalm(a) == [k \in Idx(a) |-> IF a[k] = 0 THEN CALM_SHIFT ELSE a[k]]

\* deg = deg + half
AddOffset(a, half) == [k \in Idx(a) |-> a[k] + half]

\* The wrap with > in place of >=.
WrapStrict(a) == [k \in Idx(a) |-> IF a[k] > FULL THEN a[k] - FULL ELSE a[k]]

\* deg[ deg>=360 ] -= 360 : one subtraction, not a modulus
Wrap(a) == [k \in Idx(a) |-> IF a[k] >= FULL THEN a[k] - FULL ELSE a[k]]

\* Rounding to the nearest integer in place of truncation.
AsIntRound(a, width) == [k \in Idx(a) |-> (2 * a[k] + width) \div (2 * width)]

\* (deg/width).astype(np.int64): truncation (the values are never negative)
AsInt(a, width) == [k \in Idx(a) |-> a[k] \div width]

\* The remap with its first two steps exchanged.
NumericRemapSwapped(a, n) ==
    LET s1 == [k \in Idx(a) |-> IF a[k] = 0 THEN n ELSE a[k]]
        s2 == [k \in Idx(a) |-> IF s1[k] = n THEN SENTINEL ELSE s1[k]]
    IN  [k \in Idx(a) |-> IF s2[k] = SENTINEL THEN 0 ELSE s2[k]]

\* deg[deg==n] = 999; deg[deg==0] = n; deg[deg==999] = 0
NumericRemap(a, n) ==
    LET s1 == [k \in Idx(a) |-> IF a[k] = n THEN SENTINEL ELSE a[k]]
        s2 == [k \in Idx(a) |-> IF s1[k] = 0 THEN n ELSE s1[k]]
    IN  [k \in Idx(a) |-> IF s2[k] = SENTINEL THEN 0 ELSE s2[k]]

\* Python list indexing: -len..len-1 are valid, a negative index counts from the end.
PyIndexOk(list, x) == x >= -Len(list) /\ x < Len(list)

PyIndex(list, x) == IF x >= 0 THEN list[x + 1] ELSE list[Len(list) + x + 1]

\* The body shared by Deg_to_Dir8 (labels of 8, 22.5, 45) and Deg_to_Dir16
\* (labels of 16, 11.25, 22.5): the heap after the call, what is returned,
\* whether an exception left the function, and the sector indices.
DegToDir(h, val, dir_zero, numeric, labels, half, width) ==
    LET c    == DeepCopy(h, val)
        h1   == [c.h EXCEPT ![c.id] = ShiftCalm(c.h[c.id])]
        a2   == Alloc(h1, AddOffset(h1[c.id], half))
        h3   == [a2.h EXCEPT ![a2.id] = Wrap(a2.h[a2.id])]
        a4   == Alloc(h3, AsInt(h3[a2.id], width))
        idx  == a4.h[a4.id]
        names == Dirname(labels, dir_zero)
    IN  IF numeric
        THEN [h |-> [a4.h EXCEPT ![a4.id] = NumericRemap(idx, Len(labels))],
              ret |-> <<a4.id>>, raised |-> FALSE, index |-> idx]
        ELSE IF \A k \in Idx(idx) : PyIndexOk(names, idx[k])
             THEN LET a5 == Alloc(a4.h, [k \in Idx(idx) |-> PyIndex(names, idx[k])])
                  IN  [h |-> a5.h, ret |-> <<a5.id>>, raised |-> FALSE, index |-> idx]
             ELSE [h |-> a4.h, ret |-> <<>>, raised |-> TRUE, index |-> idx]

NoFrame == [i |-> 0]

\* The directions of a call: one direction of [0, 360], or 16 directions one
\* 16-sector width apart starting in [0, 22.5).
DirInputs ==
    { <<d>> : d \in 0..FULL } \cup
    { [k \in 1..16 |-> s + (k - 1) * SECTOR16] : s \in 0..(SECTOR16 - 1) }

DirZeros == {"None", "CALM"}

InitDir ==
    /\ fn \in {"Deg_to_Dir8", "Deg_to_Dir16"}
    /\ \E val \in DirInputs :
          /\ heap = (1 :> val)
          /\ kind \in (IF Len(val) = 1 /\ val[1] \in {0, HALF8} THEN {"ndarray", "scalar"} ELSE {"ndarray"})
    /\ \E z \in DirZeros, num \in BOOLEAN :
          /\ (num => z = "None")
          /\ args = [val |-> 1, dir_zero |-> z, numeric |-> num]
    /\ caller = heap
    /\ pc = "call"
    /\ ret = <<>>
    /\ frame = NoFrame

\* A scalar direction: copy.deepcopy gives back the number, and deg[ deg==0 ] = 720
\* raises TypeError.
DirScalar ==
    /\ pc = "call"
    /\ fn \in {"Deg_to_Dir8", "Deg_to_Dir16"}
    /\ ~IsArray(kind)
    /\ pc' = "raised"
    /\ UNCHANGED <<fn, kind, args, heap, caller, ret, frame>>

Deg_to_Dir8 ==
    /\ pc = "call"
    /\ fn = "Deg_to_Dir8"
    /\ IsArray(kind)
    /\ \E r \in {DegToDir(heap, args.val, args.dir_zero, args.numeric, Labels8, HALF8, SECTOR8)} :
           /\ heap' = r.h
           /\ ret' = r.ret
           /\ pc' = IF r.raised THEN "raised" ELSE "done"
           /\ frame' = [i |-> 0, index |-> r.index]
    /\ UNCHANGED <<fn, kind, args, caller>>

Deg_to_Dir16 ==
    /\ pc = "call"
    /\ fn = "Deg_to_Dir16"
    /\ IsArray(kind)
    /\ \E r \in {DegToDir(heap, args.val, args.dir_zero, args.numeric, Labels16, HALF16, SECTOR16)} :
           /\ heap' = r.h
           /\ ret' = r.ret
           /\ pc' = IF r.raised THEN "raised" ELSE "done"
           /\ frame' = [i |-> 0, index |-> r.index]
    /\ UNCHANGED <<fn, kind, args, caller>>

\* ----------------------------------------------------------- UV_to_SpdDir
\* A float component: its sign bit and its magnitude, so that -0.0 is a value.
Floats == [neg : BOOLEAN, mag : 0..UMax]

\* 180 and 360 degrees, in direction units.
HALF_TURN == 3600
NORTH == 7200

\* The largest r with r*r <= n.
Isqrt(n) == CHOOSE r \in 0..(150 * UMax) : r * r <= n /\ n < (r + 1) * (r + 1)

\* np.sqrt( u**2 + v**2 ), in hundredths
Speed(u, v) == Isqrt(10000 * (u.mag * u.mag + v.mag * v.mag))

\* np.rad2deg( np.arctan2(y, x) ) on the axes and the diagonals, where the
\* result is exact; IEEE 754 arctan2 tells the sign of a zero.
ArcTan2Deg(y, x) ==
    IF y.mag = 0
    THEN IF ~x.neg THEN 0 ELSE IF y.neg THEN -HALF_TURN ELSE HALF_TURN
    ELSE IF x.mag = 0
         THEN IF y.neg THEN -(HALF_TURN \div 2) ELSE HALF_TURN \div 2
         ELSE IF ~x.neg
              THEN IF y.neg THEN -(HALF_TURN \div 4) ELSE HALF_TURN \div 4
              ELSE IF y.neg THEN -((3 * HALF_TURN) \div 4) ELSE (3 * HALF_TURN) \div 4

\* The two overwrites in the other order.
OverwriteDirSwapped(wdir, wspd) ==
    LET s1 == [k \in Idx(wdir) |-> IF wspd[k] = 0 THEN 0 ELSE wdir[k]]
    IN  [k \in Idx(wdir) |-> IF s1[k] = 0 THEN NORTH ELSE s1[k]]

\* wdir[ wdir==0 ] = 360.0 ; wdir[ wspd==0 ] = 0.0
OverwriteDir(wdir, wspd) ==
    LET s1 == [k \in Idx(wdir) |-> IF wdir[k] = 0 THEN NORTH ELSE wdir[k]]
    IN  [k \in Idx(wdir) |-> IF wspd[k] = 0 THEN 0 ELSE s1[k]]

\* wdir before the overwrites
RawDir(u, v) == [k \in Idx(u) |-> ArcTan2Deg(u[k], v[k]) + HALF_TURN]

\* The wind vectors of a call: on an axis or a diagonal.
UVPairs == { p \in Floats \X Floats : p[1].mag = 0 \/ p[2].mag = 0 \/ p[1].mag = p[2].mag }

UVInputs == UNION { [1..n -> UVPairs] : n \in 1..MaxLen }

InitUV ==
    /\ fn = "UV_to_SpdDir"
    /\ \E a \in UVInputs :
          /\ heap = (1 :> [k \in Idx(a) |-> a[k][1]]) @@ (2 :> [k \in Idx(a) |-> a[k][2]])
          /\ kind \in (IF Len(a) = 1 THEN {"ndarray", "scalar"} ELSE {"ndarray"})
    /\ args = [u |-> 1, v |-> 2]
    /\ caller = heap
    /\ pc = "call"
    /\ ret = <<>>
    /\ frame = NoFrame

\* With scalars wspd and wdir are numpy scalars: wdir[ wdir==0 ] = 360.0 raises
\* TypeError.
UVScalar ==
    /\ pc = "call"
    /\ fn = "UV_to_SpdDir"
    /\ ~IsArray(kind)
    /\ pc' = "raised"
    /\ UNCHANGED <<fn, kind, args, heap, caller, ret, frame>>

UV_to_SpdDir ==
    /\ pc = "call"
    /\ fn = "UV_to_SpdDir"
    /\ IsArray(kind)
    /\ LET u  == heap[args.u]
           v  == heap[args.v]
           a1 == Alloc(heap, [k \in Idx(u) |-> Speed(u[k], v[k])])
           a2 == Alloc(a1.h, RawDir(u, v))
           h3 == [a2.h EXCEPT ![a2.id] = OverwriteDir(a2.h[a2.id], a2.h[a1.id])]
       IN  /\ heap' = h3
           /\ ret' = <<a1.id, a2.id>>
           /\ frame' = [i |-> 0, raw |-> RawDir(u, v)]
    /\ pc' = "done"
    /\ UNCHANGED <<fn, kind, args, caller>>

\* ---------------------------------------------------------------- RH_to_Td
\* 0.1 % (the clip), 243.5 and 17.67 of the Bolton formula; a vapor pressure e
\* is carried as ln(e / 6.112) in units of 10^-4.
RH_MIN == 1
BOLTON_B == 2435
BOLTON_A == 176700

\* ln(rh / 100) in units of 10^-4, for the humidities of the model
LnPercent(rh) ==
    CASE rh = 1 -> -69078
      [] rh = 500 -> -6931
      [] rh = 1000 -> 0

\* rh.clip(0.1, None): a new array
Clip(h, id) == Alloc(h, [k \in Idx(h[id]) |-> IF h[id][k] < RH_MIN THEN RH_MIN ELSE h[id][k]])

\* T_to_WVP(t, "Bolton") = 6.112 * exp(17.67 t / (t + 243.5))
T_to_WVP(t) == (BOLTON_A * t) \div (t + BOLTON_B)

\* WVP_to_T(es, "Bolton") = 243.5 ln(es/6.112) / (17.67 - ln(es/6.112))
WVP_to_T(lnE) == (BOLTON_B * lnE) \div (BOLTON_A - lnE)

RHTemps == {-100, 0, 250}

RHValues == {-50, 0, 500, 1000}

RHInputs == UNION { [1..n -> RHTemps \X RHValues] : n \in 1..MaxLen }

InitRH ==
    /\ fn = "RH_to_Td"
    /\ \E a \in RHInputs :
          /\ heap = (1 :> [k \in Idx(a) |-> a[k][1]]) @@ (2 :> [k \in Idx(a) |-> a[k][2]])
          /\ kind \in (IF Len(a) = 1 THEN {"ndarray", "scalar"} ELSE {"ndarray"})
    /\ args = [t |-> 1, rh |-> 2]
    /\ caller = heap
    /\ pc = "call"
    /\ ret = <<>>
    /\ frame = NoFrame

\* A Python float has no clip method: rh.clip(0.1, None) raises AttributeError.
RHScalar ==
    /\ pc = "call"
    /\ fn = "RH_to_Td"
    /\ ~IsArray(kind)
    /\ pc' = "raised"
    /\ UNCHANGED <<fn, kind, args, heap, caller, ret, frame>>

RH_to_Td ==
    /\ pc = "call"
    /\ fn = "RH_to_Td"
    /\ IsArray(kind)
    /\ LET t  == heap[args.t]
           c  == Clip(heap, args.rh)
           rh == c.h[c.id]
           es == Alloc(c.h, [k \in Idx(t) |-> T_to_WVP(t[k])])
           e  == Alloc(es.h, [k \in Idx(t) |-> es.h[es.id][k] + LnPercent(rh[k])])
           td == Alloc(e.h, [k \in Idx(t) |-> WVP_to_T(e.h[e.id][k])])
       IN  /\ heap' = td.h
           /\ ret' = <<td.id>>
    /\ pc' = "done"
    /\ UNCHANGED <<fn, kind, args, caller, frame>>

\* --------------------------------------------------------------------- SSI
\* One degree C (and one km) in SSI units.
DEGC == 2^17

\* abs_t = 273.15 ; tl = -20 ; diff = 100 ; th = 0.001 ; step = 120 ; range(20)
ABS_T == 35802317
TL_INIT == -20 * DEGC
DIFF_INIT == 100000000
TH == 1000
STEP_INIT == 120 * DEGC
MAX_PASSES == 20

\* x * num / den without leaving 32 bits (x >= 0, den * num < 2^31)
FMul(x, num, den) == (x \div den) * num + ((x % den) * num) \div den

\* dy * dx / DEGC without leaving 32 bits (0 <= dx < DEGC, 0 <= dy < 2^26)
Slope(dy, dx) == ((dy \div 4096) * dx) \div 32 + ((dy % 4096) * dx) \div DEGC

\* The two levels of the model's soundings: 850 and 500 hPa, at 1.5 and 5.75 km.
Levels == [p0 |-> 850, p1 |-> 500, h0 |-> 196608, h1 |-> 753664]

\* Theta_e(t, t, 500, "Bolton") at t = -80, -79, ..., 40 degrees C, in 10^-6 K.
ThetaE500 == <<
    235405732, 236625264, 237844919, 239064715, 240284672, 241504812,
    242725159, 243945743, 245166593, 246387744, 247609237, 248831112,
    250053420, 251276213, 252499550, 253723498, 254948128, 256173520,
    257399763, 258626953, 259855199, 261084617, 262315337, 263547499,
    264781259, 266016785, 267254262, 268493893, 269735897, 270980514,
    272228003, 273478649, 274732757, 275990662, 277252724, 278519335,
    279790917, 281067927, 282350858, 283640243, 284936656, 286240715,
    287553085, 288874482, 290205676, 291547493, 292900820, 294266611,
    295645885, 297039736, 298449337, 299875942, 301320894, 302785630,
    304271683, 305780697, 307314426, 308874742, 310463648, 312083281,
    313735921, 315424005, 317150132, 318917079, 320727806, 322585478,
    324493470, 326455388, 328475083, 330556670, 332704546, 334923413,
    337218299, 339594587, 342058038, 344614826, 347271572, 350035378,
    352913870, 355915246, 359048323, 362322598, 365748306, 369336495,
    373099101, 377049038, 381200295, 385568051, 390168794, 395020470,
    400142634, 405556639, 411285840, 417355828, 423794698, 430633359,
    437905887, 445649930, 453907178, 462723908, 472151616, 482247754,
    493076590, 504710220, 517229756, 530726740, 545304807, 561081681,
    578191554, 596787958, 617047224, 639172689, 663399828, 690002559,
    719301023, 751671254, 787557265, 827486275, 872088013, 922119397,
    978496330 >>

\* Theta_e(t, td, p, "Bolton"): for a saturated parcel at 500 hPa, linear between
\* the values at whole degrees; for the soundings at 850 hPa, their values.
Theta_e(t, td, p) ==
    IF p = Levels.p1
    THEN LET k  == t \div DEGC
             dx == t % DEGC
             y0 == ThetaE500[k + 81]
         IN  IF dx = 0 THEN y0 ELSE y0 + Slope(ThetaE500[k + 82] - y0, dx)
    ELSE CASE t = 1966080 /\ td = 1572864 -> 332889926
           [] t = 2621440 /\ td = -3932160 -> 308406487
           [] t = 5996544 /\ td = 5996544 -> 673628225
           [] t = -2621440 /\ td = -2883584 -> 267393280
           [] t = 1310720 /\ td = 1179648 -> 321515423

\* Tlcl(t + abs_t, td + abs_t) - abs_t for the soundings
Tlcl(t, td) ==
    CASE t = 1966080 /\ td = 1572864 -> 1483094
      [] t = 2621440 /\ td = -3932160 -> -4960317
      [] t = 5996544 /\ td = 5996544 -> 5996544
      [] t = -2621440 /\ td = -2883584 -> -2932980
      [] t = 1310720 /\ td = 1179648 -> 1150032

\* The soundings <<t0, td0, t1>>: (15, 12, -15), (20, -30, -10),
\* (45.75, 45.75, -5), (-20, -22, -40), (10, 9, -20) degrees C.
Soundings ==
    { <<1966080, 1572864, -1966080>>, <<2621440, -3932160, -1310720>>,
      <<5996544, 5996544, -655360>>, <<-2621440, -2883584, -5242880>>,
      <<1310720, 1179648, -2621440>> }

\* np.full_like(t0, v) : a new array
FullLike(h, id, v) == Alloc(h, [k \in Idx(h[id]) |-> v])

\* thickness = Rd * t_ave * np.log(p0/p1) / g0, in km: Rd / 1000 = 3588 / 12500,
\* ln(850 / 500) = 0.5306, 1 / g0 = 0.10197
Hypsometric(t0, t1) ==
    FMul(FMul(FMul((t0 + t1) \div 2 + ABS_T, 3588, 12500), 5306, 10000), 10197, 100000)

\* tl_dry = t0 - thickness * gamma_d, gamma_d = 9.76 degrees C per km
DryLift(t0, thickness) == t0 - (thickness * 976) \div 100

\* The dry elements left unmarked: not counted as converged.
MarkDryNot(diff, tl_dry, t_lcl) == diff

\* diff[ tl_dry > t_lcl ] = th / 10
MarkDry(diff, tl_dry, t_lcl) ==
    [k \in Idx(diff) |-> IF tl_dry[k] > t_lcl[k] THEN TH \div 10 ELSE diff[k]]

\* tl[ tl_dry > t_lcl ] = tl_dry[ tl_dry > t_lcl ]
SetDry(tl, tl_dry, t_lcl) ==
    [k \in Idx(tl) |-> IF tl_dry[k] > t_lcl[k] THEN tl_dry[k] ELSE tl[k]]

\* diff[ |diff|>=th ] = ept[ |diff|>=th ] - Theta_e(tl[...], tl[...], p1[...])
Residuals(tl, diff, ept, p1) ==
    [k \in Idx(tl) |-> IF Abs(diff[k]) >= TH
                       THEN ept[k] - Theta_e(tl[k], tl[k], p1[k])
                       ELSE diff[k]]

\* The early exit taken as soon as some element has converged.
AnyConverged(diff) == \E k \in Idx(diff) : Abs(diff[k]) < TH

\* (np.abs(diff) < th).all()
AllConverged(diff) == \A k \in Idx(diff) : Abs(diff[k]) < TH

\* The adjustment by the sign of diff alone, without the threshold.
AdjustBySign(tl, diff, step) ==
    [k \in Idx(tl) |-> IF diff[k] > 0 THEN tl[k] + step
                       ELSE IF diff[k] < 0 THEN tl[k] - step ELSE tl[k]]

\* The adjustment with a step that is never halved.
AdjustFullStep(tl, diff, step) ==
    [k \in Idx(tl) |-> IF diff[k] >= TH THEN tl[k] + DEGC
                       ELSE IF diff[k] <= -TH THEN tl[k] - DEGC ELSE tl[k]]

\* tl[ diff >= th ] += step ; tl[ diff <= - th ] -= step
Adjust(tl, diff, step) ==
    [k \in Idx(tl) |-> IF diff[k] >= TH THEN tl[k] + step
                       ELSE IF diff[k] <= -TH THEN tl[k] - step ELSE tl[k]]

\* Lines 245-267 on array values: the locals before the loop.
Enter(t0, t1, td0, p0, thickness) ==
    LET tl_dry == [k \in Idx(t0) |-> DryLift(t0[k], thickness[k])]
        t_lcl  == [k \in Idx(t0) |-> Tlcl(t0[k], td0[k])]
    IN  [tl     |-> SetDry([k \in Idx(t0) |-> TL_INIT], tl_dry, t_lcl),
         diff   |-> MarkDry([k \in Idx(t0) |-> DIFF_INIT], tl_dry, t_lcl),
         tl_dry |-> tl_dry,
         t_lcl  |-> t_lcl,
         ept    |-> [k \in Idx(t0) |-> Theta_e(t0[k], td0[k], p0[k])]]

\* One pass of the loop, lines 269-276, on array values.
Pass(tl, diff, ept, p1, step) ==
    LET d == Residuals(tl, diff, ept, p1)
    IN  IF AllConverged(d)
        THEN [tl |-> tl, diff |-> d, brk |-> TRUE]
        ELSE [tl |-> Adjust(tl, d, step), diff |-> d, brk |-> FALSE]

Thickness(useH, h0, h1, t0, t1) ==
    [k \in Idx(t0) |-> IF useH THEN h1[k] - h0[k] ELSE Hypsometric(t0[k], t1[k])]

SSIInputs == UNION { [1..n -> Soundings] : n \in 1..MaxLen }

InitSSI ==
    /\ fn = "SSI"
    /\ kind = "ndarray"
    /\ \E a \in SSIInputs, useH \in BOOLEAN :
          LET base == <<[k \in Idx(a) |-> Levels.p0], [k \in Idx(a) |-> Levels.p1],
                        [k \in Idx(a) |-> a[k][1]], [k \in Idx(a) |-> a[k][3]],
                        [k \in Idx(a) |-> a[k][2]]>>
          IN  /\ heap = IF useH
                        THEN base @@ (6 :> [k \in Idx(a) |-> Levels.h0]) @@ (7 :> [k \in Idx(a) |-> Levels.h1])
                        ELSE base
              /\ args = [p0 |-> 1, p1 |-> 2, t0 |-> 3, t1 |-> 4, td0 |-> 5,
                         h0 |-> 6, h1 |-> 7, useH |-> useH]
    /\ caller = heap
    /\ pc = "call"
    /\ ret = <<>>
    /\ frame = NoFrame

\* Lines 245-267
SSI_Enter ==
    /\ pc = "call"
    /\ fn = "SSI"
    /\ LET t0  == heap[args.t0]
           a1  == FullLike(heap, args.t0, TL_INIT)
           a2  == FullLike(a1.h, args.t0, DIFF_INIT)
           thk == Thickness(args.useH, IF args.useH THEN heap[args.h0] ELSE <<>>,
                            IF args.useH THEN heap[args.h1] ELSE <<>>, t0, heap[args.t1])
           e   == Enter(t0, heap[args.t1], heap[args.td0], heap[args.p0], thk)
       IN  /\ heap' = [a2.h EXCEPT ![a1.id] = SetDry(a2.h[a1.id], e.tl_dry, e.t_lcl),
                                   ![a2.id] = MarkDry(a2.h[a2.id], e.tl_dry, e.t_lcl)]
           /\ frame' = [i |-> 0, step |-> STEP_INIT, tl |-> a1.id, diff |-> a2.id,
                        tl_dry |-> e.tl_dry, t_lcl |-> e.t_lcl, ept |-> e.ept]
    /\ pc' = "loop"
    /\ UNCHANGED <<fn, kind, args, caller, ret>>

\* One iteration of "for i in range(20)", lines 268-276
SSI_Pass ==
    /\ pc = "loop"
    /\ frame.i < MAX_PASSES
    /\ LET step == frame.step \div 2
           r    == Pass(heap[frame.tl], heap[frame.diff], frame.ept, heap[args.p1], step)
       IN  /\ heap' = [heap EXCEPT ![frame.tl] = r.tl, ![frame.diff] = r.diff]
           /\ frame' = [frame EXCEPT !.i = frame.i + 1, !.step = step]
           /\ pc' = IF r.brk \/ frame.i + 1 = MAX_PASSES THEN "exit" ELSE "loop"
    /\ UNCHANGED <<fn, kind, args, caller, ret>>

\* return t1 - tl, line 278
SSI_Return ==
    /\ pc = "exit"
    /\ LET tl == heap[frame.tl]
           t1 == heap[args.t1]
           a  == Alloc(heap, [k \in Idx(tl) |-> t1[k] - tl[k]])
       IN  /\ heap' = a.h
           /\ ret' = <<a.id>>
    /\ pc' = "done"
    /\ UNCHANGED <<fn, kind, args, caller, frame>>

Init == InitDir \/ InitUV \/ InitRH \/ InitSSI

Next ==
    \/ DirScalar \/ Deg_to_Dir8 \/ Deg_to_Dir16
    \/ UVScalar \/ UV_to_SpdDir
    \/ RHScalar \/ RH_to_Td
    \/ SSI_Enter \/ SSI_Pass \/ SSI_Return

Spec == Init /\ [][Next]_vars

\* ------------------------------------------------------------------ properties
IsDir == fn \in {"Deg_to_Dir8", "Deg_to_Dir16"}

DirLabels == IF fn = "Deg_to_Dir8" THEN Labels8 ELSE Labels16

DirHalf == IF fn = "Deg_to_Dir8" THEN HALF8 ELSE HALF16

DirWidth == IF fn = "Deg_to_Dir8" THEN SECTOR8 ELSE SECTOR16

Range(a) == { a[k] : k \in Idx(a) }

\* The sector of a direction as the specification words it: offset, modulus, floor.
SectorOf(d) == ((d + DirHalf) % FULL) \div DirWidth

Result == heap[ret[1]]

\* C1: with numeric=False every direction of [0, 360) gives one result, which is
\* the dir_zero placeholder exactly when the direction is 0 and one of the
\* compass labels otherwise; the sector index is never outside the label list
\* (no IndexError).
C1_PlaceholderOnlyForZero ==
    (IsDir /\ IsArray(kind) /\ ~args.numeric /\ pc # "call") =>
        /\ pc = "done"
        /\ \A k \in Idx(caller[1]) :
              caller[1][k] < FULL =>
                  /\ Result[k] = args.dir_zero <=> caller[1][k] = 0
                  /\ caller[1][k] # 0 => Result[k] \in Range(DirLabels)
                  /\ frame.index[k] \in 0..Len(DirLabels)

C1_Witness ==
    /\ pc = "done" /\ fn = "Deg_to_Dir8" /\ ~args.numeric
    /\ caller[1] = <<0>> /\ args.dir_zero = "CALM" /\ Result = <<"CALM">>

\* C2: for 0 < d <= 360 the label is the one at index
\* floor(((d + half sector) mod 360) / sector width); 22.4 is N, 22.5 and 22.6 are
\* NE for Deg_to_Dir8; 16 directions one sector width apart give 16 distinct
\* results from Deg_to_Dir16.
C2_SectorFormula ==
    (IsDir /\ pc = "done" /\ ~args.numeric) =>
        /\ \A k \in Idx(caller[1]) :
              (caller[1][k] > 0 /\ caller[1][k] <= FULL) =>
                  Result[k] = DirLabels[SectorOf(caller[1][k]) + 1]
        /\ (fn = "Deg_to_Dir8" /\ caller[1] = <<448>>) => Result = <<"N">>
        /\ (fn = "Deg_to_Dir8" /\ caller[1] \in {<<450>>, <<452>>}) => Result = <<"NE">>
        /\ (fn = "Deg_to_Dir16" /\ Len(caller[1]) = 16) => Cardinality(Range(Result)) = 16

C2_Witness ==
    /\ pc = "done" /\ fn = "Deg_to_Dir16" /\ ~args.numeric
    /\ Len(caller[1]) = 16 /\ caller[1][1] = 0
    /\ Cardinality(Range(Result)) = 16

\* C3: with numeric=True the result is 0 exactly for direction 0, the number of
\* sectors (8 or 16) exactly for the North sector, and k for the k-th sector
\* clockwise from North; 999 is never left in the result and two different
\* sectors never get the same number, for every direction of [0, 360].
C3_NumericRemap ==
    (IsDir /\ pc = "done" /\ args.numeric) =>
        /\ \A k \in Idx(caller[1]) :
              /\ Result[k] = 0 <=> caller[1][k] = 0
              /\ Result[k] = Len(DirLabels) <=> (caller[1][k] # 0 /\ SectorOf(caller[1][k]) = 0)
              /\ (caller[1][k] # 0 /\ SectorOf(caller[1][k]) # 0) =>
                    (Result[k] = SectorOf(caller[1][k]) /\ Result[k] \in 1..(Len(DirLabels) - 1))
              /\ Result[k] # SENTINEL
        /\ \A j, k \in Idx(caller[1]) :
              Result[j] = Result[k] => frame.index[j] = frame.index[k]

C3_Witness ==
    /\ pc = "done" /\ fn = "Deg_to_Dir16" /\ args.numeric
    /\ Len(caller[1]) = 16 /\ caller[1][1] = 0
    /\ Result[1] = 0 /\ Result[2] = 1 /\ Result[16] = 15

\* C4: in every element of UV_to_SpdDir's result the direction is 0 exactly when
\* the speed is 0 and lies in (0, 360] otherwise; a raw direction of 0 with a
\* nonzero speed is reported as 360, and a speed of 0 forces 0 also where the raw
\* direction was 0 (the second overwrite wins).
C4_CalmIffZeroDirection ==
    (fn = "UV_to_SpdDir" /\ pc = "done") =>
        LET wspd == heap[ret[1]]
            wdir == heap[ret[2]]
        IN  \A k \in Idx(wspd) :
               /\ wdir[k] = 0 <=> wspd[k] = 0
               /\ wspd[k] # 0 => (wdir[k] > 0 /\ wdir[k] <= NORTH)
               /\ (frame.raw[k] = 0 /\ wspd[k] # 0) => wdir[k] = NORTH
               /\ (frame.raw[k] # 0 /\ wspd[k] # 0) => wdir[k] = frame.raw[k]

C4_Witness ==
    /\ fn = "UV_to_SpdDir" /\ pc = "done"
    /\ \E k \in Idx(frame.raw) : frame.raw[k] = 0 /\ heap[ret[1]][k] = 0 /\ heap[ret[2]][k] = 0
    /\ \E k \in Idx(frame.raw) : frame.raw[k] = 0 /\ heap[ret[1]][k] # 0 /\ heap[ret[2]][k] = NORTH

\* C5: no call alters an array of its caller: at every point of every call each
\* caller array holds the values it held at the call.
C5_InputsUnchanged ==
    \A id \in DOMAIN caller : heap[id] = caller[id]

C5_Witness ==
    /\ pc = "done" /\ fn = "Deg_to_Dir8"
    /\ caller[1] = <<0>> /\ heap[2] = <<CALM_SHIFT>> /\ heap[1] = <<0>>

\* C6: every function accepts a scalar as well as an array and returns without
\* raising.
C6_ScalarsAccepted ==
    kind = "scalar" => pc # "raised"

IsSSI == fn = "SSI" /\ pc \in {"loop", "exit", "done"}

IsDryElement(k) == frame.tl_dry[k] > frame.t_lcl[k]

\* t0 - thickness * 0.00976 of element k, from the caller's arrays
DryAdiabatic(k) ==
    DryLift(caller[args.t0][k],
            IF args.useH THEN caller[args.h1][k] - caller[args.h0][k]
            ELSE Hypsometric(caller[args.t0][k], caller[args.t1][k]))

\* The residual at the current guess of element k
ActualResidual(k) ==
    frame.ept[k] - Theta_e(heap[frame.tl][k], heap[frame.tl][k], heap[args.p1][k])

\* C7: an element whose dry-adiabatic temperature exceeds its LCL temperature is
\* marked converged before the loop, no pass changes its temperature or its
\* residual, and its result is t1 minus the dry-adiabatic value however many
\* passes the other elements take.
C7_DryElementsKeepDryValue ==
    IsSSI =>
        \A k \in Idx(caller[args.t0]) :
            DryAdiabatic(k) > Tlcl(caller[args.t0][k], caller[args.td0][k]) =>
                /\ heap[frame.tl][k] = DryAdiabatic(k)
                /\ heap[frame.diff][k] = TH \div 10
                /\ pc = "done" => Result[k] = caller[args.t1][k] - DryAdiabatic(k)

C7_Witness ==
    /\ IsSSI /\ pc = "done" /\ frame.i = MAX_PASSES
    /\ \E k \in Idx(frame.ept) : IsDryElement(k) /\ Result[k] = caller[args.t1][k] - DryAdiabatic(k)

EveryElementBelowThreshold(diff) == \A k \in Idx(diff) : Abs(diff[k]) < TH

\* C8: the loop makes at most 20 passes, leaves early exactly at the first pass
\* after which every element has |residual| < 0.001, and after a 20th pass that
\* leaves some element unconverged SSI still returns t1 - tl without an error.
C8_LoopBoundedEarlyExit ==
    /\ fn = "SSI" => pc # "raised"
    /\ IsSSI =>
        /\ frame.i <= MAX_PASSES
        /\ (pc = "loop" /\ frame.i >= 1) => ~EveryElementBelowThreshold(heap[frame.diff])
        /\ (pc = "loop") => frame.i < MAX_PASSES
        /\ (pc \in {"exit", "done"}) => (EveryElementBelowThreshold(heap[frame.diff]) \/ frame.i = MAX_PASSES)
        /\ (pc \in {"exit", "done"}) => frame.i >= 1
        /\ pc = "done" =>
              Result = [k \in Idx(heap[frame.tl]) |-> caller[args.t1][k] - heap[frame.tl][k]]

C8_Witness ==
    /\ IsSSI /\ pc = "done" /\ frame.i = MAX_PASSES
    /\ ~EveryElementBelowThreshold(heap[frame.diff])
    /\ Len(Result) = Len(caller[args.t0])

\* The root of the residual is at or below x / at or above x (Theta_e rises with
\* the guess; the soundings' roots lie between -80 and 40 degrees C).
RootAtMost(x, k) ==
    x >= 40 * DEGC \/ (x >= -80 * DEGC /\ Theta_e(x, x, Levels.p1) >= frame.ept[k])

RootAtLeast(x, k) ==
    x <= -80 * DEGC \/ (x <= 40 * DEGC /\ Theta_e(x, x, Levels.p1) <= frame.ept[k])

WithinOfRoot(k, s) ==
    RootAtMost(heap[frame.tl][k] + s, k) /\ RootAtLeast(heap[frame.tl][k] - s, k)

\* C9 as stated: after the loop the residual of every saturated element is below
\* 0.001.
C9_ResidualBelowThreshold ==
    (IsSSI /\ pc = "done") =>
        \A k \in Idx(frame.ept) : ~IsDryElement(k) => Abs(ActualResidual(k)) < TH

\* C9 as amended: after every pass a saturated element either has converged, and
\* then the residual at its guess is below 0.001, or its guess is within the
\* step just applied of the root; after the 20th pass that step is 120 / 2^20.
C9_WithinLastStepOfRoot ==
    (IsSSI /\ frame.i >= 1) =>
        \A k \in Idx(frame.ept) :
            ~IsDryElement(k) =>
                /\ RootAtLeast(-80 * DEGC, k) /\ RootAtMost(40 * DEGC, k)
                /\ frame.step = STEP_INIT \div (2 ^ frame.i)
                /\ IF Abs(heap[frame.diff][k]) < TH
                   THEN heap[frame.diff][k] = ActualResidual(k)
                   ELSE WithinOfRoot(k, frame.step)

C9_Witness ==
    /\ IsSSI /\ pc = "done" /\ frame.i = MAX_PASSES /\ frame.step = 15
    /\ \E k \in Idx(frame.ept) :
          /\ ~IsDryElement(k)
          /\ Abs(heap[frame.diff][k]) >= TH
          /\ Abs(ActualResidual(k)) >= TH
          /\ WithinOfRoot(k, 15)

\* The array as an explicit tuple (evaluated once).
Evaluated(a) == SubSeq(a, 1, Len(a))

RECURSIVE SoloLoop(_, _, _, _, _, _)
\* The loop of a call on one element: the guess it ends with.
SoloLoop(tl, diff, ept, p1, step, i) ==
    IF i = MAX_PASSES
    THEN tl
    ELSE CHOOSE x \in
            { IF r.brk THEN r.tl ELSE SoloLoop(r.tl, r.diff, ept, p1, step \div 2, i + 1) :
              r \in { [tl |-> Evaluated(q.tl), diff |-> Evaluated(q.diff), brk |-> q.brk] :
                      q \in {Pass(tl, diff, ept, p1, step \div 2)} } } : TRUE

\* What SSI returns when called on element k alone.
SoloSSI(k) ==
    LET t0  == <<caller[args.t0][k]>>
        t1  == <<caller[args.t1][k]>>
        thk == Thickness(args.useH, IF args.useH THEN <<caller[args.h0][k]>> ELSE <<>>,
                         IF args.useH THEN <<caller[args.h1][k]>> ELSE <<>>, t0, t1)
        e   == Enter(t0, t1, <<caller[args.td0][k]>>, <<caller[args.p0][k]>>, thk)
    IN  t1[1] - SoloLoop(e.tl, e.diff, e.ept, <<caller[args.p1][k]>>, STEP_INIT, 0)[1]

\* C10: SSI is elementwise: the result at each position is what SSI returns for
\* that element alone, and an element that has converged is not touched again.
C10_Elementwise ==
    IsSSI =>
        /\ pc = "done" => \A k \in Idx(Result) : Result[k] = SoloSSI(k)
        /\ \A k \in Idx(frame.ept) :
              (Abs(heap[frame.diff][k]) < TH /\ ~IsDryElement(k)) =>
                  heap[frame.diff][k] = ActualResidual(k)

C10_Witness ==
    /\ IsSSI /\ pc = "done" /\ frame.i = MAX_PASSES
    /\ \E j, k \in Idx(frame.ept) :
          /\ ~IsDryElement(j) /\ Abs(heap[frame.diff][j]) < TH
          /\ Abs(heap[frame.diff][k]) >= TH
          /\ Result[j] = SoloSSI(j) /\ Result[k] = SoloSSI(k)

====
